---- MODULE Spec2Model ----
(***************************************************************************)
(* A model of src/src/run.ts (djamaile/changesets-action).                 *)
(*                                                                         *)
(* The file holds two copies of runVersion.  The first (lines 194-362)     *)
(* selects the entries of the two buckets with includes('Major') and       *)
(* includes('Patch') ("filter" pipeline); the second (lines 557-749)       *)
(* classifies every entry with splitContent into a title-keyed mapping     *)
(* ("split" pipeline).  Both are modelled; the variable pipeline says      *)
(* which copy runs.  runPublish and createRelease (lines 381-519) are      *)
(* modelled by a second set of variables and actions.                      *)
(*                                                                         *)
(* Text is a sequence of tokens.  Every token is a literal piece of text   *)
(* and the string a sequence stands for is the concatenation of its        *)
(* tokens.  The tokens are chosen so that every search the code performs   *)
(* ("Major Changes", "Patch Changes", "Changes", "Major", "Patch", "###",  *)
(* "\n", "-") can only match on token boundaries.                          *)
(***************************************************************************)
EXTENDS Integers, Sequences, FiniteSets, TLC

VARIABLES
    pipeline,           \* "filter" (lines 194-362) or "split" (lines 557-749)
    releaseVersion,     \* the releaseVersion option, Undefined when not given
    changedPackages,    \* getChangedPackages(): sequence of [name, entry]
    pc,                 \* position of runVersion
    error,              \* what made the run fail, "" while it has not
    calls,              \* external calls made so far, in order
    search,             \* searchResultPromise: "none", "pending", "resolved", "rejected"
    searchItems,        \* searchResult.data.items once awaited
    toUseReleaseVersion,
    pendingReads,       \* indexes of the reads that have not completed
    values,             \* Promise.all's result array under construction
    overtaken,          \* a read completed before the read of an earlier package
    rejected,           \* indexes of the reads that failed
    changelogEntries,   \* result of the awaited Promise.all
    pluginChanges,      \* the title-keyed mapping (insertion ordered)
    features,           \* split: rendered subsections; filter: selected entries
    bugfixes,           \* likewise for the bug-fixes bucket
    changelogBody,
    fullChangelogPath,
    fmt,                \* outcome of the prettier try block, "" before it
    written,            \* files written by fs.writeFile: sequence of [path, content]
    prBody,
    result,             \* the value runVersion resolves to
    exited,             \* the process was ended by an unhandled rejection
    createGithubReleases, \* option of runPublish
    tool,               \* getPackages(cwd).tool
    packages,           \* getPackages(cwd).packages: [name, version, changelog]
    stdout,             \* changesetPublishOutput.stdout
    publishPc,          \* position of runPublish
    publishError,       \* what made runPublish fail, "" while it has not
    publishCalls,       \* external calls and createRelease calls, in order
    releasedPackages,
    releases,           \* stage of each createRelease call that was started
    publishResult       \* the value runPublish resolves to

vars == <<pipeline, releaseVersion, changedPackages, pc, error, calls, search,
          searchItems, toUseReleaseVersion, pendingReads, values, overtaken,
          rejected, changelogEntries, pluginChanges, features, bugfixes, changelogBody,
          fullChangelogPath, fmt, written, prBody, result, exited,
          createGithubReleases, tool, packages, stdout, publishPc, publishError,
          publishCalls, releasedPackages, releases, publishResult>>

\* The variables of runVersion and those of runPublish.
versionVars == <<pipeline, releaseVersion, changedPackages, pc, error, calls, search,
                 searchItems, toUseReleaseVersion, pendingReads, values, overtaken,
                 rejected, changelogEntries, pluginChanges, features, bugfixes,
                 changelogBody, fullChangelogPath, fmt, written, prBody, result,
                 exited>>

publishVars == <<createGithubReleases, tool, packages, stdout, publishPc,
                 publishError, publishCalls, releasedPackages, releases,
                 publishResult>>

-----------------------------------------------------------------------------
(* Bounds *)

MaxPkgs == 2
MaxChunks == 3

-----------------------------------------------------------------------------
(* Tokens *)

SP == " "
NL == "\n"
IND2 == "  "
IND4 == "    "
IND6 == "      "
IND8 == "        "
IND9 == "         "
IND10 == "          "
H2 == "## "
H3 == "###"
DASH == "-"
COMMA == ","
CHANGES == "Changes"
MAJOR == "Major"
PATCH == "Patch"
\* The value of an option that was not passed; a template literal prints it
\* as the text undefined.
Undefined == "#undefined"

\* What String.prototype.trim / trimStart remove.
WhiteSpace == {SP, NL, IND2, IND4, IND6, IND8, IND9, IND10}

-----------------------------------------------------------------------------
(* String primitives, 0-based like their JavaScript counterparts *)

Min(S) == CHOOSE x \in S : \A y \in S : x <= y

Max(S) == CHOOSE x \in S : \A y \in S : x >= y

\* String.prototype.indexOf: the least offset at which pat occurs, else -1.
RECURSIVE IndexFrom(_, _, _)
IndexFrom(s, pat, i) ==
    IF i + Len(pat) - 1 > Len(s) THEN -1
    ELSE IF \A j \in 1..Len(pat) : s[i + j - 1] = pat[j] THEN i - 1
    ELSE IndexFrom(s, pat, i + 1)

IndexOf(s, pat) == IndexFrom(s, pat, 1)

Includes(s, pat) == IndexOf(s, pat) # -1

\* String.prototype.slice(start, end) for 0 <= start, 0 <= end.
Slice(s, start, end) ==
    IF start >= end \/ start >= Len(s) THEN <<>>
    ELSE SubSeq(s, start + 1, IF end > Len(s) THEN Len(s) ELSE end)

SliceFrom(s, start) == Slice(s, start, Len(s))

\* Offset of the first token at or after offset i that is not white space.
RECURSIVE SkipSpace(_, _)
SkipSpace(s, i) ==
    IF i < Len(s) /\ s[i + 1] \in WhiteSpace THEN SkipSpace(s, i + 1) ELSE i

\* Offset just after the last token before offset i that is not white space.
RECURSIVE SkipSpaceBack(_, _)
SkipSpaceBack(s, i) ==
    IF i > 0 /\ s[i] \in WhiteSpace THEN SkipSpaceBack(s, i - 1) ELSE i

TrimStart(s) == SliceFrom(s, SkipSpace(s, 0))

TrimEnd(s) == Slice(s, 0, SkipSpaceBack(s, Len(s)))

Trim(s) == TrimEnd(TrimStart(s))

\* String.prototype.replace(pat, rep) with a string pattern: first match only.
ReplaceFirst(s, pat, rep) ==
    LET i == IndexOf(s, pat)
    IN IF i = -1 THEN s
       ELSE Slice(s, 0, i) \o rep \o SliceFrom(s, i + Len(pat))

\* String.prototype.split(sep): the pieces between the occurrences of sep.
RECURSIVE Split(_, _)
Split(s, sep) ==
    LET i == IndexOf(s, sep)
    IN IF i = -1 THEN <<s>>
       ELSE <<Slice(s, 0, i)>> \o Split(SliceFrom(s, i + Len(sep)), sep)

\* Array.prototype.join(sep) over an array of strings.
RECURSIVE Join(_, _)
Join(parts, sep) ==
    IF parts = <<>> THEN <<>>
    ELSE IF Len(parts) = 1 THEN parts[1]
    ELSE parts[1] \o sep \o Join(Tail(parts), sep)

\* Array.prototype.map over a sequence of strings with trimStart.
TrimStartEach(ls) == [i \in 1..Len(ls) |-> TrimStart(ls[i])]

\* `${v}` in a template literal.
Str(v) == IF v = Undefined THEN "undefined" ELSE v

\* a || b on strings: the empty string and undefined are falsy.
OrElse(a, b) == IF a = Undefined \/ a = "" THEN b ELSE a

-----------------------------------------------------------------------------
(* splitAndCapitalize, lines 186-192 and 549-555 *)

\* word.charAt(0).toUpperCase() + word.slice(1).toLowerCase() on the words
\* package names are made of (names are lower-case; a word is one token).
UpperFirst(tok) ==
    CASE tok = "plugin"  -> "Plugin"
      [] tok = "lib"     -> "Lib"
      [] tok = "x"       -> "X"
      [] tok = "foo"     -> "Foo"
      [] tok = "bar"     -> "Bar"
      [] tok = "major"   -> MAJOR
      [] tok = "patch"   -> PATCH
      [] tok = "changes" -> CHANGES
      [] OTHER           -> tok

CapitalizeWord(word) ==
    [i \in 1..Len(word) |-> IF i = 1 THEN UpperFirst(word[i]) ELSE word[i]]

splitAndCapitalize(str) ==
    LET words == Split(str, <<DASH>>)
        shifted == Tail(words)
    IN Join([i \in 1..Len(shifted) |-> CapitalizeWord(shifted[i])], <<SP>>)

\* The content of one element of changelogEntries, lines 250-252 and 613-615.
EntryContent(pkg) ==
    <<H2>> \o splitAndCapitalize(pkg.name) \o <<NL, NL>> \o pkg.entry

-----------------------------------------------------------------------------
(* The title-keyed mapping: a JavaScript object with string keys.  Its     *)
(* entries are kept in insertion order; assigning to an existing key keeps *)
(* the key's place.  (Titles are never integer-like here.)                 *)

HasKey(obj, key) == \E i \in 1..Len(obj) : obj[i].key = key

KeyIndex(obj, key) == CHOOSE i \in 1..Len(obj) : obj[i].key = key

\* existingObj[pluginName] = {major, patch}, lines 642-645.
ObjSetKeepFirst(obj, key, major, patch) ==
    IF HasKey(obj, key) THEN obj
    ELSE Append(obj, [key |-> key, major |-> major, patch |-> patch])

ObjSet(obj, key, major, patch) ==
    IF HasKey(obj, key)
    THEN [obj EXCEPT ![KeyIndex(obj, key)] =
             [key |-> key, major |-> major, patch |-> patch]]
    ELSE Append(obj, [key |-> key, major |-> major, patch |-> patch])

-----------------------------------------------------------------------------
(* splitContent, lines 620-646 *)

MajorMarker == <<MAJOR, SP, CHANGES>>
PatchMarker == <<PATCH, SP, CHANGES>>

PluginNameOf(content) ==
    Trim(ReplaceFirst(Split(content, <<NL>>)[1], <<H2>>, <<>>))

\* A classifier whose major text starts after the marker instead of at it.
MajorOfAfterMarker(content) ==
    LET majorIndex == IndexOf(content, MajorMarker)
        patchIndex == IndexOf(content, PatchMarker)
        start == majorIndex + Len(MajorMarker)
    IN IF majorIndex # -1
       THEN IF patchIndex # -1
            THEN ReplaceFirst(Trim(Slice(content, start, patchIndex)),
                              <<H3>>, <<>>)
            ELSE Trim(SliceFrom(content, start))
       ELSE <<>>

MajorOf(content) ==
    LET majorIndex == IndexOf(content, MajorMarker)
        patchIndex == IndexOf(content, PatchMarker)
    IN IF majorIndex # -1
       THEN IF patchIndex # -1
            THEN ReplaceFirst(Trim(Slice(content, majorIndex, patchIndex)),
                              <<H3>>, <<>>)
            ELSE Trim(SliceFrom(content, majorIndex))
       ELSE <<>>

PatchOf(content) ==
    LET patchIndex == IndexOf(content, PatchMarker)
    IN IF patchIndex # -1 THEN Trim(SliceFrom(content, patchIndex)) ELSE <<>>

splitContent(content, existingObj) ==
    ObjSet(existingObj, PluginNameOf(content), MajorOf(content), PatchOf(content))

\* for (const item of changelogEntries) splitContent(item.content, pluginChanges),
\* lines 647-650.
RECURSIVE ClassifyAll(_, _)
ClassifyAll(entries, obj) ==
    IF entries = <<>> THEN obj
    ELSE ClassifyAll(Tail(entries), splitContent(Head(entries).content, obj))

-----------------------------------------------------------------------------
(* Rendering of the split pipeline, lines 651-668 *)

\* x.split("Changes")[1] is undefined, and .trim() on it throws, when x
\* holds no "Changes".
Renderable(text) == Len(Split(text, <<CHANGES>>)) >= 2

\* text.split("Changes")[1].trim()
ChangesBody(text) == Trim(Split(text, <<CHANGES>>)[2])

\* The loop over Object.entries(pluginChanges): the subsections pushed to
\* features (sel = "major") or bugfixes (sel = "patch").
RECURSIVE Subsections(_, _)
Subsections(obj, sel) ==
    IF obj = <<>> THEN <<>>
    ELSE LET e == Head(obj)
             text == IF sel = "major" THEN e.major ELSE e.patch
         IN (IF text # <<>>
             THEN <<[pluginName |-> e.key, body |-> ChangesBody(text)]>>
             ELSE <<>>) \o Subsections(Tail(obj), sel)

SplitRenderThrows(obj) ==
    \E i \in 1..Len(obj) :
        \/ obj[i].major # <<>> /\ ~Renderable(obj[i].major)
        \/ obj[i].patch # <<>> /\ ~Renderable(obj[i].patch)

\* The template literal pushed at lines 657-660 and 663-666.
SubsectionText(f) ==
    <<NL, IND9, H3, SP>> \o f.pluginName \o <<NL, IND9>> \o f.body \o <<NL, IND6>>

SplitMarkdown(feats, bugs) ==
    <<NL, IND2, "## Features", NL, IND2>>
    \o Join([i \in 1..Len(feats) |-> SubsectionText(feats[i])], <<NL>>)
    \o <<NL, IND2, NL, IND2, "## Bug fixes", NL, IND2>>
    \o Join([i \in 1..Len(bugs) |-> SubsectionText(bugs[i])], <<NL>>)
    \o <<NL, IND2>>

-----------------------------------------------------------------------------
(* The filter pipeline, lines 257-290 *)

RECURSIVE FilterIncludes(_, _)
FilterIncludes(entries, word) ==
    IF entries = <<>> THEN <<>>
    ELSE (IF Includes(Head(entries).content, <<word>>)
          THEN <<Head(entries)>> ELSE <<>>)
         \o FilterIncludes(Tail(entries), word)

\* b.content.match(/##\s*([^\n]+)/)[1].  The content starts with "## ", so
\* the match is at offset 0: \s* takes the white space after "##" and gives
\* back as much as the capture needs; the capture runs to the next "\n".
UpToNewline(s) ==
    LET i == IndexOf(s, <<NL>>) IN IF i = -1 THEN s ELSE Slice(s, 0, i)

HeadingCapture(content) ==
    LET rest == <<SP>> \o Tail(content)
        after == TrimStart(rest)
        nws == Len(rest) - Len(after)
        back == Max({j \in 1..nws : rest[j] # NL})
    IN IF after # <<>> THEN UpToNewline(after)
       ELSE UpToNewline(SliceFrom(rest, back - 1))

FilterSubsection(b) ==
    [pluginName |-> HeadingCapture(b.content), body |-> ChangesBody(b.content)]

FilterRenderThrows(entries) ==
    \E i \in 1..Len(entries) : ~Renderable(entries[i].content)

\* The template literal returned at lines 266-270 and 281-285.
FilterSubsectionText(f) ==
    <<NL, IND10, H3, SP>> \o f.pluginName \o <<NL, NL, NL, NL, IND10>>
    \o f.body \o <<NL, IND8>>

\* createFeatureMarkDown / createBugFixedMarkdown: `${array}` joins with ",".
FilterBucket(heading, entries) ==
    <<NL, IND6, heading, NL, IND6>>
    \o Join([i \in 1..Len(entries) |->
                FilterSubsectionText(FilterSubsection(entries[i]))], <<COMMA>>)
    \o <<NL, IND4>>

FilterMarkdown(feats, bugs) ==
    FilterBucket("## Features", feats) \o <<NL, NL>>
    \o FilterBucket("## Bug fixes", bugs)

-----------------------------------------------------------------------------
(* Document assembly, lines 291-303 and 678-690 *)

AlignedMarkdown(markdown) ==
    Join(TrimStartEach(Split(markdown, <<NL>>)), <<NL>>)

ChangelogBody(version, alignedMarkdown) ==
    <<NL, "# Release v", Str(version), NL, NL>> \o alignedMarkdown \o <<NL>>

FileName(relVersion, toUse) == <<"v", Str(relVersion), "-changelog.md">>

FullChangelogPath(changelogPath, file) == <<changelogPath, "/">> \o file

\* prettier.format(changelogBody, {parser: "markdown"}): the library is not
\* part of the repository; of its effect the model keeps that the blank
\* lines around the document go and that it ends with one line break.
PrettierFormat(body) == Trim(body) \o <<NL>>

-----------------------------------------------------------------------------
(* The environment of a run *)

\* github.context.ref and the names derived from it, lines 568-569.
Ref == <<"refs/heads/", "main">>
Branch == ReplaceFirst(Ref, <<"refs/heads/">>, <<>>)
VersionBranch == <<"changeset-release/">> \o Branch

\* The changelogPath option's default, line 565.
DefaultChangelogPath == "docs/releases"

\* version of the root package.json, line 597.
VersionFromPackageJson == "1.0.0"

\* The releaseVersion option: not passed, passed empty, passed.
ReleaseVersions == {Undefined, "", "2.0.0"}

\* What the open-PR search may return, and the number a created PR may get.
SearchResults == {<<>>, <<7, 9>>}
NewNumbers == {11}

\* Pieces a changelog entry (getChangelogEntry(...).content) is made of.
HMajor == <<H3, SP, MAJOR, SP, CHANGES, NL, NL>>
HPatch == <<H3, SP, PATCH, SP, CHANGES, NL, NL>>
Note == <<"- fix", NL>>
NoteChanges == <<"- see", SP, CHANGES, SP, "below", NL>>
NotePatchChanges == <<"- undo", SP, PATCH, SP, CHANGES, NL>>

Chunks == {HMajor, HPatch, Note, NoteChanges, NotePatchChanges}

RECURSIVE ChunkTexts(_)
ChunkTexts(k) ==
    IF k = 0 THEN {<<>>}
    ELSE LET S == ChunkTexts(k - 1)
         IN S \cup {c \o t : c \in Chunks, t \in S}

\* Package names, split by splitAndCapitalize at "-".
PluginFoo == <<"plugin", DASH, "foo">>
LibFoo == <<"lib", DASH, "foo">>
PluginBar == <<"plugin", DASH, "bar">>
XMajorChanges == <<"x", DASH, "major", DASH, "changes">>
XPatch == <<"x", DASH, "patch">>

\* Input domain of Spec: up to MaxPkgs packages with typical entries; two of
\* the names (plugin-foo and lib-foo) have the same title.
TypicalEntries ==
    {HMajor \o Note, HPatch \o Note, HMajor \o Note \o <<NL>> \o HPatch \o Note}

TypicalPackages ==
    [name : {PluginFoo}, entry : TypicalEntries]
    \cup {[name |-> LibFoo, entry |-> HPatch \o Note],
          [name |-> PluginBar, entry |-> HMajor \o Note],
          [name |-> PluginBar, entry |-> HPatch \o Note]}

\* Input domain of SpecText: one package, every entry of up to MaxChunks pieces.
TextPackages ==
    [name : {PluginFoo, XMajorChanges, XPatch}, entry : ChunkTexts(MaxChunks)]

SeqsUpTo(S, n) == UNION {[1..k -> S] : k \in 0..n}

\* A slot of Promise.all's result array that no read has filled yet.
Hole == [content |-> <<"<pending>">>]

NoResult == [pullRequestNumber |-> 0]

InitRun ==
    /\ pc = "start"
    /\ error = ""
    /\ calls = <<>>
    /\ search = "none"
    /\ searchItems = <<>>
    /\ toUseReleaseVersion = ""
    /\ pendingReads = {}
    /\ values = <<>>
    /\ overtaken = FALSE
    /\ rejected = {}
    /\ changelogEntries = <<>>
    /\ pluginChanges = <<>>
    /\ features = <<>>
    /\ bugfixes = <<>>
    /\ changelogBody = <<>>
    /\ fullChangelogPath = <<>>
    /\ fmt = ""
    /\ written = <<>>
    /\ prBody = <<>>
    /\ result = NoResult
    /\ exited = FALSE

\* runPublish is not running.
NoPublishResult == [published |-> FALSE, publishedPackages |-> <<>>]

PublishIdle ==
    /\ createGithubReleases = FALSE
    /\ tool = "root"
    /\ packages = <<>>
    /\ stdout = <<>>
    /\ publishPc = "idle"
    /\ publishError = ""
    /\ publishCalls = <<>>
    /\ releasedPackages = <<>>
    /\ releases = <<>>
    /\ publishResult = NoPublishResult

Init ==
    /\ pipeline \in {"filter", "split"}
    /\ releaseVersion \in ReleaseVersions \ {""}
    /\ changedPackages \in SeqsUpTo(TypicalPackages, MaxPkgs)
    /\ InitRun
    /\ PublishIdle

InitText ==
    /\ pipeline \in {"filter", "split"}
    /\ releaseVersion = ""
    /\ changedPackages \in [1..1 -> TextPackages]
    /\ InitRun
    /\ PublishIdle

-----------------------------------------------------------------------------
(* runVersion, lines 194-362 and 557-749 *)

\* An entry of the log of external calls: the operation and its data.
Call(op, arg) == [op |-> op, arg |-> arg]

Fail(why) ==
    /\ pc' = "failed"
    /\ error' = why

\* Line 571: await readChangesetState(cwd), which may reject.
ReadChangesetState ==
    /\ pc = "start"
    /\ \E ok \in BOOLEAN :
        IF ok THEN pc' = "switch" /\ error' = error ELSE Fail("readChangesetState")
    /\ calls' = calls
    /\ UNCHANGED <<exited, publishVars>>
    /\ UNCHANGED <<pipeline, rejected, releaseVersion, changedPackages, search, searchItems,
                   toUseReleaseVersion, pendingReads, values, overtaken,
                   changelogEntries, pluginChanges, features, bugfixes,
                   changelogBody, fullChangelogPath, fmt, written, prBody, result>>

\* Line 573: await gitUtils.switchToMaybeExistingBranch(versionBranch).
SwitchBranch ==
    /\ pc = "switch"
    /\ calls' = Append(calls, Call("switchToMaybeExistingBranch", VersionBranch))
    /\ \E ok \in BOOLEAN :
        IF ok THEN pc' = "reset" /\ error' = error
        ELSE Fail("switchToMaybeExistingBranch")
    /\ UNCHANGED <<exited, publishVars>>
    /\ UNCHANGED <<pipeline, rejected, releaseVersion, changedPackages, search, searchItems,
                   toUseReleaseVersion, pendingReads, values, overtaken,
                   changelogEntries, pluginChanges, features, bugfixes,
                   changelogBody, fullChangelogPath, fmt, written, prBody, result>>

\* Line 574: await gitUtils.reset(github.context.sha).
Reset ==
    /\ pc = "reset"
    /\ calls' = Append(calls, Call("reset", <<>>))
    /\ \E ok \in BOOLEAN :
        IF ok THEN pc' = "versions" /\ error' = error ELSE Fail("reset")
    /\ UNCHANGED <<exited, publishVars>>
    /\ UNCHANGED <<pipeline, rejected, releaseVersion, changedPackages, search, searchItems,
                   toUseReleaseVersion, pendingReads, values, overtaken,
                   changelogEntries, pluginChanges, features, bugfixes,
                   changelogBody, fullChangelogPath, fmt, written, prBody, result>>

\* Line 576: await getVersionsByDirectory(cwd).
GetVersionsByDirectory ==
    /\ pc = "versions"
    /\ \E ok \in BOOLEAN :
        IF ok THEN pc' = "exec" /\ error' = error ELSE Fail("getVersionsByDirectory")
    /\ calls' = calls
    /\ UNCHANGED <<exited, publishVars>>
    /\ UNCHANGED <<pipeline, rejected, releaseVersion, changedPackages, search, searchItems,
                   toUseReleaseVersion, pendingReads, values, overtaken,
                   changelogEntries, pluginChanges, features, bugfixes,
                   changelogBody, fullChangelogPath, fmt, written, prBody, result>>

\* Lines 578-589: await exec(...) of the version command.  Without the
\* script option, requireChangesetsCliPkgJson or resolveFrom throws before
\* exec is called when @changesets/cli is not installed.
ExecVersion ==
    /\ pc = "exec"
    /\ \E outcome \in {"ok", "rejected", "cliMissing"} :
        IF outcome = "cliMissing"
        THEN /\ Fail("requireChangesetsCliPkgJson")
             /\ calls' = calls
        ELSE /\ calls' = Append(calls, Call("exec", <<>>))
             /\ IF outcome = "ok" THEN pc' = "search" /\ error' = error
                ELSE Fail("exec")
    /\ UNCHANGED <<exited, publishVars>>
    /\ UNCHANGED <<pipeline, rejected, releaseVersion, changedPackages, search, searchItems,
                   toUseReleaseVersion, pendingReads, values, overtaken,
                   changelogEntries, pluginChanges, features, bugfixes,
                   changelogBody, fullChangelogPath, fmt, written, prBody, result>>

\* Lines 591-594: the search is issued and not awaited.
IssueSearch ==
    /\ pc = "search"
    /\ search' = "pending"
    /\ calls' = Append(calls, Call("search.issuesAndPullRequests", VersionBranch))
    /\ pc' = "getChangedPackages"
    /\ UNCHANGED <<exited, publishVars>>
    /\ UNCHANGED <<pipeline, rejected, releaseVersion, changedPackages, error, searchItems,
                   toUseReleaseVersion, pendingReads, values, overtaken,
                   changelogEntries, pluginChanges, features, bugfixes,
                   changelogBody, fullChangelogPath, fmt, written, prBody, result>>

\* Line 595: await getChangedPackages(cwd, versionsByDirectory).
GetChangedPackages ==
    /\ pc = "getChangedPackages"
    /\ \E ok \in BOOLEAN :
        IF ok THEN pc' = "readJson" /\ error' = error ELSE Fail("getChangedPackages")
    /\ UNCHANGED <<exited, publishVars>>
    /\ UNCHANGED <<pipeline, rejected, releaseVersion, changedPackages, calls, search,
                   searchItems, toUseReleaseVersion, pendingReads, values, overtaken,
                   changelogEntries, pluginChanges, features, bugfixes,
                   changelogBody, fullChangelogPath, fmt, written, prBody, result>>

\* Lines 597-600: await fs.readJson of the root package.json; the release
\* version is chosen from its result.
ReadJson ==
    /\ pc = "readJson"
    /\ \E ok \in BOOLEAN :
        IF ok
        THEN /\ toUseReleaseVersion' = OrElse(releaseVersion, VersionFromPackageJson)
             /\ pc' = "startReads"
             /\ error' = error
        ELSE /\ Fail("readJson")
             /\ UNCHANGED toUseReleaseVersion
    /\ UNCHANGED <<exited, publishVars>>
    /\ UNCHANGED <<pipeline, rejected, releaseVersion, changedPackages, calls, search,
                   searchItems, pendingReads, values, overtaken,
                   changelogEntries, pluginChanges, features, bugfixes,
                   changelogBody, fullChangelogPath, fmt, written, prBody, result>>

\* Lines 602-607: changedPackages.map starts every read, in list order.
\* Promise.all of an empty array resolves at once.
StartReads ==
    /\ pc = "startReads"
    /\ LET n == Len(changedPackages)
       IN /\ calls' = calls \o [i \in 1..n |-> Call("readFile", <<i>>)]
          /\ pendingReads' = 1..n
          /\ values' = [i \in 1..n |-> Hole]
          /\ IF n = 0
             THEN pc' = "classify" /\ changelogEntries' = <<>>
             ELSE pc' = "reads" /\ changelogEntries' = changelogEntries
    /\ UNCHANGED <<exited, publishVars>>
    /\ UNCHANGED <<pipeline, rejected, releaseVersion, changedPackages, error, search,
                   searchItems, toUseReleaseVersion, overtaken, pluginChanges,
                   features, bugfixes, changelogBody, fullChangelogPath, fmt,
                   written, prBody, result>>

\* Promise.all puts the value of its index-th promise at that index.
PromiseAllStoreByCompletion(vals, index, nDone, v) ==
    [vals EXCEPT ![nDone + 1] = v]

PromiseAllStore(vals, index, nDone, v) ==
    [vals EXCEPT ![index] = v]

\* The reads settle while the process lives, also after runVersion has
\* rejected on the first failed read.
ReadsSettling ==
    /\ ~exited
    /\ pc = "reads" \/ (pc = "failed" /\ error = "readFile")

\* Lines 604-617 for one package: its read completes and the entry is built.
\* The awaited Promise.all resolves when the last read has completed, unless
\* it has already rejected.
ReadComplete ==
    /\ ReadsSettling
    /\ \E i \in pendingReads :
        /\ pendingReads' = pendingReads \ {i}
        /\ overtaken' = (overtaken \/ \E j \in pendingReads : j < i)
        /\ values' = PromiseAllStore(values, i,
                                     Len(changedPackages) - Cardinality(pendingReads),
                                     [content |-> EntryContent(changedPackages[i])])
        /\ IF pendingReads' = {} /\ pc = "reads"
           THEN pc' = "classify" /\ changelogEntries' = values'
           ELSE pc' = pc /\ changelogEntries' = changelogEntries
    /\ UNCHANGED <<exited, publishVars>>
    /\ UNCHANGED <<pipeline, rejected, releaseVersion, changedPackages, error, calls, search,
                   searchItems, toUseReleaseVersion, pluginChanges, features,
                   bugfixes, changelogBody, fullChangelogPath, fmt, written,
                   prBody, result>>

\* What a rejected read does to the run: Promise.all rejects with it and the
\* await at line 602 throws.
ReadFailureIgnored(why) ==
    /\ pc' = "classify"
    /\ error' = error

ReadFailure(why) == Fail(why)

\* Lines 604-607: fs.readFile rejects for one package.
ReadFail ==
    /\ ReadsSettling
    /\ \E i \in pendingReads :
        /\ pendingReads' = pendingReads \ {i}
        /\ rejected' = rejected \cup {i}
    /\ changelogEntries' = <<>>
    /\ IF pc = "reads" THEN ReadFailure("readFile") ELSE UNCHANGED <<pc, error>>
    /\ UNCHANGED <<exited, publishVars>>
    /\ UNCHANGED <<pipeline, releaseVersion, changedPackages, calls, search,
                   searchItems, toUseReleaseVersion, values, overtaken,
                   pluginChanges, features, bugfixes, changelogBody,
                   fullChangelogPath, fmt, written, prBody, result>>

\* Lines 647-668: every entry is classified into pluginChanges, then the
\* subsections of both buckets are rendered from its entries.
ClassifySplit ==
    /\ pc = "classify"
    /\ pipeline = "split"
    /\ LET obj == ClassifyAll(changelogEntries, <<>>)
       IN /\ pluginChanges' = obj
          /\ IF SplitRenderThrows(obj)
             THEN /\ Fail("TypeError")
                  /\ UNCHANGED <<features, bugfixes>>
             ELSE /\ features' = Subsections(obj, "major")
                  /\ bugfixes' = Subsections(obj, "patch")
                  /\ pc' = "assemble"
                  /\ error' = error
    /\ UNCHANGED <<exited, publishVars>>
    /\ UNCHANGED <<pipeline, rejected, releaseVersion, changedPackages, calls, search,
                   searchItems, toUseReleaseVersion, pendingReads, values,
                   overtaken, changelogEntries, changelogBody, fullChangelogPath,
                   fmt, written, prBody, result>>

\* Lines 257-258: the entries of each bucket are selected.
ClassifyFilter ==
    /\ pc = "classify"
    /\ pipeline = "filter"
    /\ bugfixes' = FilterIncludes(changelogEntries, PATCH)
    /\ features' = FilterIncludes(changelogEntries, MAJOR)
    /\ pc' = "assemble"
    /\ UNCHANGED <<exited, publishVars>>
    /\ UNCHANGED <<pipeline, rejected, releaseVersion, changedPackages, error, calls, search,
                   searchItems, toUseReleaseVersion, pendingReads, values,
                   overtaken, changelogEntries, pluginChanges, changelogBody,
                   fullChangelogPath, fmt, written, prBody, result>>

Markdown ==
    IF pipeline = "split" THEN SplitMarkdown(features, bugfixes)
    ELSE FilterMarkdown(features, bugfixes)

\* Lines 670-690 (split) and 290-303 (filter, whose renderers run here and
\* throw on an entry without "Changes").
Assemble ==
    /\ pc = "assemble"
    /\ IF pipeline = "filter"
          /\ (FilterRenderThrows(features) \/ FilterRenderThrows(bugfixes))
       THEN /\ Fail("TypeError")
            /\ UNCHANGED <<changelogBody, fullChangelogPath>>
       ELSE /\ changelogBody' =
                   ChangelogBody(toUseReleaseVersion, AlignedMarkdown(Markdown))
            /\ fullChangelogPath' =
                   FullChangelogPath(DefaultChangelogPath,
                                     FileName(releaseVersion, toUseReleaseVersion))
            /\ pc' = "format"
            /\ error' = error
    /\ UNCHANGED <<exited, publishVars>>
    /\ UNCHANGED <<pipeline, rejected, releaseVersion, changedPackages, calls, search,
                   searchItems, toUseReleaseVersion, pendingReads, values,
                   overtaken, changelogEntries, pluginChanges, features, bugfixes,
                   fmt, written, prBody, result>>

\* How the prettier try block ends: "ok", or "threw" (at the require of
\* resolveFrom(cwd, "prettier"), at resolveConfig or at format: the three
\* leave the same state behind).
FormatOutcomes == {"threw", "ok"}

\* changelogBody after the try block of lines 692-699.
BodyAfterFormatClobbered(body, outcome) ==
    IF outcome = "ok" THEN PrettierFormat(body) ELSE <<>>

BodyAfterFormat(body, outcome) ==
    IF outcome = "ok" THEN PrettierFormat(body) ELSE body

\* Lines 692-699: the empty catch swallows whatever the block throws.
Format ==
    /\ pc = "format"
    /\ \E outcome \in FormatOutcomes :
        /\ fmt' = outcome
        /\ changelogBody' = BodyAfterFormat(changelogBody, outcome)
    /\ pc' = "write"
    /\ UNCHANGED <<exited, publishVars>>
    /\ UNCHANGED <<pipeline, rejected, releaseVersion, changedPackages, error, calls, search,
                   searchItems, toUseReleaseVersion, pendingReads, values,
                   overtaken, changelogEntries, pluginChanges, features, bugfixes,
                   fullChangelogPath, written, prBody, result>>

\* The pull-request body, lines 318 and 705.  The filter copy appends
\* JSON.stringify(changelogEntries): kept as the array itself.
PrBody(path) ==
    [text |-> <<"See [">> \o path
              \o <<"](https://github.com/backstage/backstage/blob/master/">>
              \o path \o <<") for more information.", NL, NL>>,
     path |-> path,
     json |-> IF pipeline = "filter" THEN changelogEntries ELSE <<>>]

\* Line 703: fs.writeFile(fullChangelogPath, changelogBody) is called.
WriteFileCall ==
    /\ pc = "write"
    /\ calls' = Append(calls, Call("writeFile", fullChangelogPath))
    /\ pc' = "writing"
    /\ UNCHANGED <<exited, publishVars>>
    /\ UNCHANGED <<pipeline, rejected, releaseVersion, changedPackages, error, search,
                   searchItems, toUseReleaseVersion, pendingReads, values,
                   overtaken, changelogEntries, pluginChanges, features, bugfixes,
                   changelogBody, fullChangelogPath, fmt, written, prBody, result>>

\* Lines 703-705: the awaited fs.writeFile settles; written holds the files
\* whose write has resolved.  prBody follows at once.
WriteFile ==
    /\ pc = "writing"
    /\ calls' = calls
    /\ \E ok \in BOOLEAN :
        IF ok
        THEN /\ written' = Append(written, [path |-> fullChangelogPath,
                                            content |-> changelogBody])
             /\ prBody' = PrBody(fullChangelogPath)
             /\ pc' = "commit"
             /\ error' = error
        ELSE /\ Fail("writeFile")
             /\ UNCHANGED <<written, prBody>>
    /\ UNCHANGED <<exited, publishVars>>
    /\ UNCHANGED <<pipeline, rejected, releaseVersion, changedPackages, search, searchItems,
                   toUseReleaseVersion, pendingReads, values, overtaken,
                   changelogEntries, pluginChanges, features, bugfixes,
                   changelogBody, fullChangelogPath, fmt, result>>

\* Line 710: gitUtils.checkIfClean() is called.
CheckIfCleanCall ==
    /\ pc = "commit"
    /\ calls' = Append(calls, Call("checkIfClean", <<>>))
    /\ pc' = "checking"
    /\ UNCHANGED <<exited, publishVars>>
    /\ UNCHANGED <<pipeline, rejected, releaseVersion, changedPackages, error, search,
                   searchItems, toUseReleaseVersion, pendingReads, values,
                   overtaken, changelogEntries, pluginChanges, features, bugfixes,
                   changelogBody, fullChangelogPath, fmt, written, prBody, result>>

\* Line 710: the awaited checkIfClean settles: the tree is clean, or dirty,
\* or the call rejects.
CheckIfClean ==
    /\ pc = "checking"
    /\ calls' = calls
    /\ \E outcome \in {"clean", "dirty", "rejected"} :
        IF outcome = "rejected" THEN Fail("checkIfClean")
        ELSE /\ pc' = (IF outcome = "clean" THEN "push" ELSE "commitAll")
             /\ error' = error
    /\ UNCHANGED <<exited, publishVars>>
    /\ UNCHANGED <<pipeline, rejected, releaseVersion, changedPackages, search,
                   searchItems, toUseReleaseVersion, pendingReads, values,
                   overtaken, changelogEntries, pluginChanges, features, bugfixes,
                   changelogBody, fullChangelogPath, fmt, written, prBody, result>>

\* Lines 711-714: gitUtils.commitAll(finalCommitMessage) is called.
CommitAllCall ==
    /\ pc = "commitAll"
    /\ calls' = Append(calls, Call("commitAll", <<>>))
    /\ pc' = "committing"
    /\ UNCHANGED <<exited, publishVars>>
    /\ UNCHANGED <<pipeline, rejected, releaseVersion, changedPackages, error, search,
                   searchItems, toUseReleaseVersion, pendingReads, values,
                   overtaken, changelogEntries, pluginChanges, features, bugfixes,
                   changelogBody, fullChangelogPath, fmt, written, prBody, result>>

\* Line 714: the awaited commitAll settles.
CommitAll ==
    /\ pc = "committing"
    /\ calls' = calls
    /\ \E ok \in BOOLEAN :
        IF ok THEN pc' = "push" /\ error' = error ELSE Fail("commitAll")
    /\ UNCHANGED <<exited, publishVars>>
    /\ UNCHANGED <<pipeline, rejected, releaseVersion, changedPackages, search,
                   searchItems, toUseReleaseVersion, pendingReads, values,
                   overtaken, changelogEntries, pluginChanges, features, bugfixes,
                   changelogBody, fullChangelogPath, fmt, written, prBody, result>>

\* Line 717: gitUtils.push(versionBranch, { force: true }) is called.
PushCall ==
    /\ pc = "push"
    /\ calls' = Append(calls, Call("push", VersionBranch \o <<"force">>))
    /\ pc' = "pushing"
    /\ UNCHANGED <<exited, publishVars>>
    /\ UNCHANGED <<pipeline, rejected, releaseVersion, changedPackages, error, search,
                   searchItems, toUseReleaseVersion, pendingReads, values,
                   overtaken, changelogEntries, pluginChanges, features, bugfixes,
                   changelogBody, fullChangelogPath, fmt, written, prBody, result>>

\* Line 717: the awaited push settles.
Push ==
    /\ pc = "pushing"
    /\ calls' = calls
    /\ \E ok \in BOOLEAN :
        IF ok THEN pc' = "awaitSearch" /\ error' = error ELSE Fail("push")
    /\ UNCHANGED <<exited, publishVars>>
    /\ UNCHANGED <<pipeline, rejected, releaseVersion, changedPackages, search, searchItems,
                   toUseReleaseVersion, pendingReads, values, overtaken,
                   changelogEntries, pluginChanges, features, bugfixes,
                   changelogBody, fullChangelogPath, fmt, written, prBody, result>>

\* How node treats a rejection of a promise that has no handler yet: by
\* default ("throw") the process ends; under --unhandled-rejections=warn
\* the run goes on.
UnhandledRejections == {"throw", "warn"}

\* The positions at which runVersion is running, not waiting: no promise
\* reaction and no unhandled-rejection handling runs until it reaches its
\* next await.
Synchronous == {"search", "startReads", "classify", "assemble", "write", "commit",
                "commitAll", "push", "pr"}

\* The promise of line 592 settles, whatever runVersion is waiting for or
\* has done.  It has no handler until the await of line 719 is reached: when it
\* rejects before, node ends the process ("throw") or goes on ("warn").
SearchSettle ==
    /\ search = "pending"
    /\ ~exited
    /\ pc \notin Synchronous
    /\ \/ /\ search' = "resolved"
          /\ UNCHANGED <<pc, error, exited>>
       \/ /\ search' = "rejected"
          /\ IF pc = "awaitSearch"
             THEN UNCHANGED <<pc, error, exited>>
             ELSE \E mode \in UnhandledRejections :
                      IF mode = "warn" THEN UNCHANGED <<pc, error, exited>>
                      ELSE /\ exited' = TRUE
                           /\ IF pc = "failed" THEN UNCHANGED <<pc, error>>
                              ELSE Fail("unhandledRejection")
    /\ UNCHANGED publishVars
    /\ UNCHANGED <<pipeline, rejected, releaseVersion, changedPackages, calls,
                   searchItems, toUseReleaseVersion, pendingReads, values, overtaken,
                   changelogEntries, pluginChanges, features, bugfixes,
                   changelogBody, fullChangelogPath, fmt, written, prBody, result>>

\* Line 719: the search issued at line 592 is awaited; the await yields its
\* items once it has resolved and throws once it has rejected.
AwaitSearch ==
    /\ pc = "awaitSearch"
    /\ \/ /\ search = "resolved"
          /\ \E items \in SearchResults : searchItems' = items
          /\ pc' = "pr"
          /\ error' = error
       \/ /\ search = "rejected"
          /\ Fail("search")
          /\ UNCHANGED searchItems
    /\ UNCHANGED <<exited, publishVars>>
    /\ UNCHANGED <<pipeline, rejected, releaseVersion, changedPackages, calls, search,
                   toUseReleaseVersion, pendingReads, values, overtaken,
                   changelogEntries, pluginChanges, features, bugfixes,
                   changelogBody, fullChangelogPath, fmt, written, prBody, result>>

\* Lines 721-735: no open pull request was found; one is created.  The call
\* is logged with the number GitHub gave the new pull request (0: the call
\* failed).
CreatePR ==
    /\ pc = "pr"
    /\ Len(searchItems) = 0
    /\ \E number \in NewNumbers \cup {0} :
        /\ calls' = Append(calls, Call("pulls.create", <<number>>))
        /\ IF number # 0
           THEN /\ result' = [pullRequestNumber |-> number]
                /\ pc' = "done"
                /\ error' = error
           ELSE /\ Fail("pulls.create")
                /\ UNCHANGED result
    /\ UNCHANGED <<exited, publishVars>>
    /\ UNCHANGED <<pipeline, rejected, releaseVersion, changedPackages, search, searchItems,
                   toUseReleaseVersion, pendingReads, values, overtaken,
                   changelogEntries, pluginChanges, features, bugfixes,
                   changelogBody, fullChangelogPath, fmt, written, prBody>>

\* searchResult.data.items[0].number, lines 738 and 746.
PullToUpdateLast(items) == items[Len(items)]

PullToUpdate(items) == items[1]

\* Lines 736-747: the first pull request found is updated.
UpdatePR ==
    /\ pc = "pr"
    /\ Len(searchItems) # 0
    /\ calls' = Append(calls, Call("pulls.update", <<PullToUpdate(searchItems)>>))
    /\ \E ok \in BOOLEAN :
        IF ok
        THEN /\ result' = [pullRequestNumber |-> searchItems[1]]
             /\ pc' = "done"
             /\ error' = error
        ELSE /\ Fail("pulls.update")
             /\ UNCHANGED result
    /\ UNCHANGED <<exited, publishVars>>
    /\ UNCHANGED <<pipeline, rejected, releaseVersion, changedPackages, search, searchItems,
                   toUseReleaseVersion, pendingReads, values, overtaken,
                   changelogEntries, pluginChanges, features, bugfixes,
                   changelogBody, fullChangelogPath, fmt, written, prBody>>

Next ==
    \/ ReadChangesetState
    \/ SwitchBranch
    \/ Reset
    \/ GetVersionsByDirectory
    \/ ExecVersion
    \/ IssueSearch
    \/ GetChangedPackages
    \/ ReadJson
    \/ StartReads
    \/ ReadComplete
    \/ ReadFail
    \/ ClassifySplit
    \/ ClassifyFilter
    \/ Assemble
    \/ Format
    \/ WriteFileCall
    \/ WriteFile
    \/ CheckIfCleanCall
    \/ CheckIfClean
    \/ CommitAllCall
    \/ CommitAll
    \/ PushCall
    \/ Push
    \/ SearchSettle
    \/ AwaitSearch
    \/ CreatePR
    \/ UpdatePR

Spec == Init /\ [][Next]_vars

SpecText == InitText /\ [][Next]_vars

-----------------------------------------------------------------------------
(* runPublish: the publish output and its scan, lines 449-483 and 493-507 *)

MaxLines == 2

\* Tokens of a line of the publish output.  A line holds single spaces
\* only, and "New tag:", "@" and "/" occur only as these tokens.
NEWTAG == "New tag:"
AT == "@"
SLASH == "/"

\* Index of the first token equal to tok at or after index from, else 0.
FirstAt(line, tok, from) ==
    LET at == {k \in from..Len(line) : line[k] = tok}
    IN IF at = {} THEN 0 ELSE Min(at)

\* Number of consecutive spaces after index p.
RECURSIVE SpacesAfter(_, _)
SpacesAfter(line, p) ==
    IF p < Len(line) /\ line[p + 1] = SP THEN 1 + SpacesAfter(line, p + 1) ELSE 0

\* @[^/]+\/[^@]+ followed by @([^\s]+), tried at index q: the index of the
\* last token of the captured name, else 0.  Each class excludes exactly
\* the literal that follows it, so the ends of the two runs are forced.
ScopedNameEnd(line, q) ==
    IF q <= Len(line) /\ line[q] = AT
    THEN LET f == FirstAt(line, SLASH, q + 1)
             g == IF f = 0 THEN 0 ELSE FirstAt(line, AT, f + 1)
         IN IF f > q + 1 /\ g > f + 1 /\ g + 1 <= Len(line) /\ line[g + 1] # SP
            THEN g - 1 ELSE 0
    ELSE 0

\* [^/]+ followed by @([^\s]+), tried at index q: the greedy class gives
\* tokens back until an "@" with a non-space after it follows.
PlainNameEnd(line, q) ==
    LET f == FirstAt(line, SLASH, q)
        runEnd == IF f = 0 THEN Len(line) ELSE f - 1
        ends == {e \in q..(runEnd - 1) :
                    line[e + 1] = AT /\ e + 2 <= Len(line) /\ line[e + 2] # SP}
    IN IF ends = {} THEN 0 ELSE Max(ends)

NameEnd(line, q) ==
    IF ScopedNameEnd(line, q) # 0 THEN ScopedNameEnd(line, q)
    ELSE PlainNameEnd(line, q)

\* line.match(/New tag:\s+(@[^/]+\/[^@]+|[^/]+)@([^\s]+)/): whether it
\* matched and match[1].  The leftmost "New tag:" that can match wins, then
\* the longest run of white space.
newTagRegex(line) ==
    LET cands == {c \in (1..Len(line)) \X (1..Len(line)) :
                     /\ line[c[1]] = NEWTAG
                     /\ c[2] <= SpacesAfter(line, c[1])
                     /\ NameEnd(line, c[1] + c[2] + 1) # 0}
    IN IF cands = {} THEN [matched |-> FALSE, name |-> <<>>]
       ELSE LET p == Min({c[1] : c \in cands})
                s == Max({c[2] : c \in {d \in cands : d[1] = p}})
                q == p + s + 1
            IN [matched |-> TRUE, name |-> SubSeq(line, q, NameEnd(line, q))]

\* line.match(/New tag:/) of the single-package branch.
rootTagRegex(line) == Includes(line, <<NEWTAG>>)

\* packagesByName.get(pkgName): index of the package of that name (the last
\* one, as the Map constructor keeps the last value of a key), else 0.
packagesByName(pkgs, pkgName) ==
    LET at == {k \in 1..Len(pkgs) : pkgs[k].name = pkgName}
    IN IF at = {} THEN 0 ELSE Max(at)

\* A scan that passes over a matched name that is not a workspace package.
RECURSIVE ScanLinesSkipMissing(_, _, _)
ScanLinesSkipMissing(lines, pkgs, released) ==
    IF lines = <<>> THEN [threw |-> FALSE, released |-> released]
    ELSE LET match == newTagRegex(Head(lines))
             k == packagesByName(pkgs, match.name)
         IN IF ~match.matched \/ k = 0
            THEN ScanLinesSkipMissing(Tail(lines), pkgs, released)
            ELSE ScanLinesSkipMissing(Tail(lines), pkgs, Append(released, pkgs[k]))

\* The loop of lines 453-467 over the lines of the output.
RECURSIVE ScanLines(_, _, _)
ScanLines(lines, pkgs, released) ==
    IF lines = <<>> THEN [threw |-> FALSE, released |-> released]
    ELSE LET match == newTagRegex(Head(lines))
             k == packagesByName(pkgs, match.name)
         IN IF ~match.matched THEN ScanLines(Tail(lines), pkgs, released)
            ELSE IF k = 0 THEN [threw |-> TRUE, released |-> released]
            ELSE ScanLines(Tail(lines), pkgs, Append(released, pkgs[k]))

\* The loop of lines 496-507: the root package once, at the first match.
RootReleased(lines, pkg) ==
    IF \E k \in 1..Len(lines) : rootTagRegex(lines[k]) THEN <<pkg>> ELSE <<>>

\* tagName of a release, lines 474 and 503.
TagName(pkg, multi) ==
    IF multi THEN pkg.name \o <<AT>> \o pkg.version ELSE <<"v">> \o pkg.version

\* The arguments of octokit.repos.createRelease, lines 399-405.
ReleaseArgs(pkg, tagName) ==
    [name |-> tagName, tag_name |-> tagName,
     prerelease |-> Includes(pkg.version, <<DASH>>)]

\* publishedPackages, lines 513-516.
PublishedPackages(released) ==
    [i \in 1..Len(released) |->
        [name |-> released[i].name, version |-> released[i].version]]

-----------------------------------------------------------------------------
(* Inputs of runPublish *)

\* What createRelease finds at the package's CHANGELOG.md: an entry for the
\* version, no entry for it, or no file (ENOENT).
ChangelogStates == {"entry", "noEntry", "ENOENT"}

PkgA(c) == [name |-> <<"pkg-a">>, version |-> <<"1.0.0">>, changelog |-> c]
PkgB(c) == [name |-> <<AT, "scope", SLASH, "pkg-b">>,
            version |-> <<"2.0.0", DASH, "beta">>, changelog |-> c]
RootPkg(c) == [name |-> <<"root-pkg">>, version |-> <<"1.0.0">>, changelog |-> c]

WorkspacePackages == {<<PkgA(a), PkgB(b)>> : a, b \in ChangelogStates}
RootPackages == {<<>>} \cup {<<RootPkg(c)>> : c \in ChangelogStates}

LineA == <<NEWTAG, SP, "pkg-a", AT, "1.0.0">>
LineB == <<"info", SP, NEWTAG, SP, SP, AT, "scope", SLASH, "pkg-b", AT,
           "2.0.0", DASH, "beta">>
LineGhost == <<NEWTAG, SP, "ghost", AT, "1.0.0">>
LineBare == <<"info", SP, NEWTAG>>
LineInfo == <<"info", SP, "published">>
OutputLines == {LineA, LineB, LineGhost, LineBare, LineInfo}

\* The outputs of up to MaxLines lines.
Stdouts == {Join(ls, <<NL>>) : ls \in SeqsUpTo(OutputLines, MaxLines)}

InitPublish ==
    /\ pipeline = "split"
    /\ releaseVersion = Undefined
    /\ changedPackages = <<>>
    /\ InitRun
    /\ createGithubReleases \in BOOLEAN
    /\ tool \in {"root", "yarn"}
    /\ packages \in (IF tool = "root" THEN RootPackages ELSE WorkspacePackages)
    /\ stdout \in Stdouts
    /\ publishPc = "start"
    /\ publishError = ""
    /\ publishCalls = <<>>
    /\ releasedPackages = <<>>
    /\ releases = <<>>
    /\ publishResult = NoPublishResult

-----------------------------------------------------------------------------
(* runPublish, lines 432-519, and createRelease, lines 381-412 *)

PublishFail(why) ==
    /\ publishPc' = "failed"
    /\ publishError' = why

\* Lines 439-445: await execWithOutput of the publish command, which may
\* reject.
PublishExec ==
    /\ publishPc = "start"
    /\ publishCalls' = Append(publishCalls, Call("exec", stdout))
    /\ \E ok \in BOOLEAN :
          IF ok THEN publishPc' = "pushTags" /\ publishError' = publishError
          ELSE PublishFail("execWithOutput")
    /\ UNCHANGED <<createGithubReleases, tool, packages, stdout,
                   releasedPackages, releases, publishResult>>
    /\ UNCHANGED versionVars

\* Line 447: await gitUtils.pushTags(), which may reject.
PushTags ==
    /\ publishPc = "pushTags"
    /\ \E ok \in BOOLEAN :
          IF ok
          THEN /\ publishPc' = "scan"
               /\ publishError' = publishError
          ELSE PublishFail("pushTags")
    /\ publishCalls' = Append(publishCalls, Call("pushTags", <<>>))
    /\ UNCHANGED <<createGithubReleases, tool, packages, stdout,
                   releasedPackages, releases, publishResult>>
    /\ UNCHANGED versionVars

\* The createRelease calls of lines 469-479 (one per released package, made
\* together) or of lines 500-505 (one), each up to its first await.
StartReleases(released, multi) ==
    /\ publishCalls' =
           publishCalls \o [i \in 1..Len(released) |->
                               Call("createRelease",
                                    [pkg |-> released[i].name,
                                     tagName |-> TagName(released[i], multi)])]
    /\ releases' = [i \in 1..Len(released) |-> "reading"]

\* Lines 449-508: await getPackages(cwd), which may reject, then the scan of
\* the output up to the first await that follows it.
ScanOutput ==
    /\ publishPc = "scan"
    /\ LET lines == Split(stdout, <<NL>>)
           multi == tool # "root"
           scan == ScanLines(lines, packages, <<>>)
           threw == IF multi THEN scan.threw ELSE packages = <<>>
           released == IF multi THEN scan.released
                       ELSE RootReleased(lines, packages[1])
       IN \E ok \in BOOLEAN :
          IF ~ok
          THEN /\ PublishFail("getPackages")
               /\ UNCHANGED <<publishCalls, releasedPackages, releases>>
          ELSE IF threw
          THEN /\ PublishFail(IF multi THEN "notFound" ELSE "noPackage")
               /\ UNCHANGED <<publishCalls, releasedPackages, releases>>
          ELSE /\ releasedPackages' = released
               /\ publishError' = publishError
               /\ IF createGithubReleases /\ released # <<>>
                  THEN /\ StartReleases(released, multi)
                       /\ publishPc' = "releases"
                  ELSE /\ publishPc' = "return"
                       /\ UNCHANGED <<publishCalls, releases>>
    /\ UNCHANGED <<createGithubReleases, tool, packages, stdout, publishResult>>
    /\ UNCHANGED versionVars

\* The awaited createRelease calls (Promise.all at line 470, or the single
\* await at line 500) settle: rejected at the first failure, resolved when
\* every call has resolved.
Settle(stages) ==
    IF publishPc # "releases"
    THEN UNCHANGED <<publishPc, publishError>>
    ELSE IF \E i \in 1..Len(stages) : stages[i] = "failed"
    THEN PublishFail("createRelease")
    ELSE IF \A i \in 1..Len(stages) : stages[i] \in {"released", "skipped"}
    THEN publishPc' = "return" /\ publishError' = publishError
    ELSE UNCHANGED <<publishPc, publishError>>

\* Lines 386-397 and 406-411: the changelog is read.  A missing file is
\* swallowed by the catch; a missing entry throws.
ReleaseRead ==
    \E i \in 1..Len(releases) :
        /\ releases[i] = "reading"
        /\ LET found == releasedPackages[i].changelog
               stage == IF found = "entry" THEN "creating"
                        ELSE IF found = "ENOENT" THEN "skipped"
                        ELSE "failed"
           IN /\ releases' = [releases EXCEPT ![i] = stage]
              /\ publishCalls' =
                     Append(publishCalls, Call("readFile", releasedPackages[i].name))
              /\ Settle(releases')
        /\ UNCHANGED <<createGithubReleases, tool, packages, stdout,
                       releasedPackages, publishResult>>
        /\ UNCHANGED versionVars

\* Lines 399-405: await octokit.repos.createRelease, which may reject.
ReleaseCreate ==
    \E i \in 1..Len(releases) :
        /\ releases[i] = "creating"
        /\ publishCalls' =
               Append(publishCalls,
                      Call("repos.createRelease",
                           ReleaseArgs(releasedPackages[i],
                                       TagName(releasedPackages[i], tool # "root"))))
        /\ \E ok \in BOOLEAN :
               releases' = [releases EXCEPT ![i] = IF ok THEN "released" ELSE "failed"]
        /\ Settle(releases')
        /\ UNCHANGED <<createGithubReleases, tool, packages, stdout,
                       releasedPackages, publishResult>>
        /\ UNCHANGED versionVars

\* Lines 510-519.
PublishReturn ==
    /\ publishPc = "return"
    /\ publishResult' =
           IF Len(releasedPackages) # 0
           THEN [published |-> TRUE,
                 publishedPackages |-> PublishedPackages(releasedPackages)]
           ELSE [published |-> FALSE, publishedPackages |-> <<>>]
    /\ publishPc' = "done"
    /\ UNCHANGED <<createGithubReleases, tool, packages, stdout, publishError,
                   publishCalls, releasedPackages, releases>>
    /\ UNCHANGED versionVars

NextPublish ==
    \/ PublishExec
    \/ PushTags
    \/ ScanOutput
    \/ ReleaseRead
    \/ ReleaseCreate
    \/ PublishReturn

SpecPublish == InitPublish /\ [][NextPublish]_vars

-----------------------------------------------------------------------------
(* Vocabulary of the properties *)

PostClassify == {"assemble", "format", "write", "writing", "commit", "checking",
                 "commitAll", "committing", "push", "pushing",
                 "awaitSearch", "pr", "done"}

LateErrors == {"writeFile", "checkIfClean", "commitAll", "push", "search",
               "pulls.create", "pulls.update"}

\* The classification step has run (it may have thrown).
Classified ==
    \/ pc \in PostClassify
    \/ pc = "failed" /\ error \in LateErrors \cup {"TypeError"}

\* The classification step has just run.
JustClassified ==
    \/ pc = "assemble"
    \/ pc = "failed" /\ error = "TypeError" /\ changelogBody = <<>>

TitleOf(i) == PluginNameOf(EntryContent(changedPackages[i]))

\* The last package of the list with the title of package i.
LastWithTitle(i) ==
    Max({j \in 1..Len(changedPackages) : TitleOf(j) = TitleOf(i)})

UniqueTitle(i) == \A j \in 1..Len(changedPackages) : TitleOf(j) = TitleOf(i) => j = i

\* The entry of the mapping for a title.
Stored(title) == pluginChanges[KeyIndex(pluginChanges, title)]

\* Subsections of a rendered bucket (split pipeline) titled `title`.
Titled(bucket, title) == {k \in 1..Len(bucket) : bucket[k].pluginName = title}

HasMajorMarker(text) == Includes(text, MajorMarker)
HasPatchMarker(text) == Includes(text, PatchMarker)

\* The entry has a "### Major Changes" / "### Patch Changes" subsection.
HasMajorSection(entry) == Includes(entry, <<H3, SP, MAJOR, SP, CHANGES, NL>>)
HasPatchSection(entry) == Includes(entry, <<H3, SP, PATCH, SP, CHANGES, NL>>)

\* Calls of the log with one of the given operations.
CallsOf(ops) == {k \in 1..Len(calls) : calls[k].op \in ops}

-----------------------------------------------------------------------------
(* C1 *)

\* C1: for every entry text holding both markers "Major Changes" and "Patch
\* Changes", in either order, splitContent stores a non-empty major and a
\* non-empty patch text, and the major text is exactly the text from the
\* major marker to where the patch marker begins.
C1_BothMarkersBothTexts ==
    (pipeline = "split" /\ Classified) =>
        \A i \in 1..Len(changelogEntries) :
            LET content == changelogEntries[i].content
                majorIndex == IndexOf(content, MajorMarker)
                patchIndex == IndexOf(content, PatchMarker)
            IN (majorIndex # -1 /\ patchIndex # -1 /\ LastWithTitle(i) = i) =>
                  /\ Stored(PluginNameOf(content)).major # <<>>
                  /\ Stored(PluginNameOf(content)).patch # <<>>
                  /\ Stored(PluginNameOf(content)).major
                         = Slice(content, majorIndex, patchIndex)

-----------------------------------------------------------------------------
(* C2 *)

\* C2: a changed package whose changelog entry holds neither marker causes no
\* error, both of its classified texts are empty, and it gets no subsection
\* under Features and none under Bug fixes, whatever its title is.
C2_NoMarkerNoSubsection ==
    \A i \in 1..Len(changedPackages) :
        (/\ ~HasMajorMarker(changedPackages[i].entry)
         /\ ~HasPatchMarker(changedPackages[i].entry)
         /\ UniqueTitle(i)) =>
            /\ error # "TypeError"
            /\ (pipeline = "split" /\ Classified) =>
                  /\ Stored(TitleOf(i)).major = <<>>
                  /\ Stored(TitleOf(i)).patch = <<>>
                  /\ Titled(features, TitleOf(i)) = {}
                  /\ Titled(bugfixes, TitleOf(i)) = {}
            /\ (pipeline = "filter" /\ Classified) =>
                  \A k \in 1..Len(changelogEntries) :
                      changelogEntries[k].content = EntryContent(changedPackages[i])
                      => /\ \A f \in 1..Len(features) : features[f] # changelogEntries[k]
                         /\ \A b \in 1..Len(bugfixes) : bugfixes[b] # changelogEntries[k]

-----------------------------------------------------------------------------
(* C3 *)

\* The subsections a package with a unique title has in a bucket.
SubsectionsOf(bucket, i) ==
    IF pipeline = "split" THEN Titled(bucket, TitleOf(i))
    ELSE {k \in 1..Len(bucket) : bucket[k].content = EntryContent(changedPackages[i])}

\* C3: no cross-contamination: a package whose entry has only a "Major
\* Changes" subsection gets exactly one subsection under Features and none
\* under Bug fixes; one with only a "Patch Changes" subsection gets exactly
\* one under Bug fixes and none under Features, whatever its notes say.
C3_NoCrossContamination ==
    Classified =>
        \A i \in 1..Len(changedPackages) :
            LET entry == changedPackages[i].entry
            IN UniqueTitle(i) =>
                /\ (HasMajorSection(entry) /\ ~HasPatchSection(entry)) =>
                      /\ Cardinality(SubsectionsOf(features, i)) = 1
                      /\ SubsectionsOf(bugfixes, i) = {}
                /\ (HasPatchSection(entry) /\ ~HasMajorSection(entry)) =>
                      /\ Cardinality(SubsectionsOf(bugfixes, i)) = 1
                      /\ SubsectionsOf(features, i) = {}

-----------------------------------------------------------------------------
(* C4 *)

\* The version printed in the "# Release v{V}" heading of a document.
HeadingVersion(body) == body[IndexOf(body, <<"# Release v">>) + 2]

\* C4: with or without the releaseVersion option, the document is written to
\* {changelogPath}/v{V}-changelog.md where V is the version of its
\* "# Release v{V}" heading, and the pull request body embeds that same path.
C4_PathMatchesHeading ==
    \A k \in 1..Len(written) :
        /\ written[k].path =
               <<DefaultChangelogPath, "/", "v",
                 HeadingVersion(written[k].content), "-changelog.md">>
        /\ HeadingVersion(written[k].content)
               = OrElse(releaseVersion, VersionFromPackageJson)
        /\ prBody.path = written[k].path

-----------------------------------------------------------------------------
(* C5 *)

PublishingOps == {"writeFile", "commitAll", "push", "pulls.create", "pulls.update"}

\* C5: if the read of CHANGELOG.md fails for any one changed package, the run
\* ends with that error and leaves no partial output: no file is written,
\* nothing is committed or pushed, no pull request is created or updated.
C5_FailedReadAbortsRun ==
    rejected # {} =>
        /\ pc = "failed"
        /\ error = "readFile"
        /\ written = <<>>
        /\ CallsOf(PublishingOps) = {}
        /\ result = NoResult

\* One read has failed after another one had succeeded.
C5_Witness ==
    /\ rejected # {}
    /\ \E i \in 1..Len(values) : values[i] # Hole
    /\ pc = "failed"

-----------------------------------------------------------------------------
(* C6 *)

\* The document as assembled, before any formatting.
UnformattedBody ==
    ChangelogBody(toUseReleaseVersion, AlignedMarkdown(Markdown))

\* C6: a failure in any step of the optional formatting never fails the run
\* and never changes what is published: the file written is exactly the
\* unformatted document and the run goes on to the write, commit, push and
\* pull-request steps.
C6_FormatFailureSwallowed ==
    fmt \in FormatOutcomes \ {"ok"} =>
        /\ pc \in {"write", "writing", "commit", "checking", "commitAll", "committing",
                  "push", "pushing", "awaitSearch", "pr", "done"}
           \/ (pc = "failed" /\ error \in LateErrors \cup {"unhandledRejection"})
        /\ pc \in {"write", "writing", "commit"} => changelogBody = UnformattedBody
        /\ \A k \in 1..Len(written) : written[k].content = changelogBody

\* A run whose formatter threw has completed with the file written.
C6_Witness ==
    /\ fmt = "threw"
    /\ pc = "done"
    /\ Len(written) = 1
    /\ written[1].content # PrettierFormat(written[1].content)

-----------------------------------------------------------------------------
(* C7 *)

\* The whole text after the first "Changes" of a section, trimmed.
WholeRemainder(text) ==
    Trim(SliceFrom(text, IndexOf(text, <<CHANGES>>) + 1))

\* C7: the body of a rendered subsection is the whole text that follows the
\* first "Changes" of the package's section, trimmed: no note is shortened
\* or dropped when the notes themselves hold the word "Changes".
C7_BodyIsWholeRemainder ==
    (pipeline = "split" /\ pc \in PostClassify) =>
        \A i \in 1..Len(pluginChanges) :
            LET e == pluginChanges[i]
            IN /\ e.major # <<>> =>
                    \A k \in Titled(features, e.key) :
                        features[k].body = WholeRemainder(e.major)
               /\ e.patch # <<>> =>
                    \A k \in Titled(bugfixes, e.key) :
                        bugfixes[k].body = WholeRemainder(e.patch)

-----------------------------------------------------------------------------
(* C8 *)

Keys(obj) == {obj[k].key : k \in 1..Len(obj)}

\* C8: after classification the mapping holds, for each title, exactly the
\* major and patch texts of the last entry with that title (an earlier
\* entry's texts are replaced, never merged), so each title has at most one
\* subsection per bucket.
C8_LastEntryWins ==
    (pipeline = "split" /\ JustClassified) =>
        LET n == Len(changelogEntries)
            title == [i \in 1..n |-> PluginNameOf(changelogEntries[i].content)]
            last == [i \in 1..n |-> Max({j \in 1..n : title[j] = title[i]})]
        IN /\ Keys(pluginChanges) = {title[i] : i \in 1..n}
           /\ \A a, b \in 1..Len(pluginChanges) :
                  pluginChanges[a].key = pluginChanges[b].key => a = b
           /\ \A i \in 1..n :
                  /\ Stored(title[i]).major = MajorOf(changelogEntries[last[i]].content)
                  /\ Stored(title[i]).patch = PatchOf(changelogEntries[last[i]].content)
           /\ \A t \in Keys(pluginChanges) :
                  /\ Cardinality(Titled(features, t)) <= 1
                  /\ Cardinality(Titled(bugfixes, t)) <= 1

\* Two entries share a title; the earlier had a major text, the later has
\* none, and the mapping holds the later one's (empty) major text.
C8_Witness ==
    /\ pipeline = "split"
    /\ pc = "assemble"
    /\ Len(changelogEntries) >= 2
    /\ PluginNameOf(changelogEntries[1].content)
           = PluginNameOf(changelogEntries[2].content)
    /\ MajorOf(changelogEntries[1].content) # <<>>
    /\ MajorOf(changelogEntries[2].content) = <<>>
    /\ LastWithTitle(1) = 2
    /\ Len(pluginChanges) = 1
    /\ pluginChanges[1].major = <<>>
    /\ features = <<>>

-----------------------------------------------------------------------------
(* C9 *)

\* The entries in the order of the changed-package list.
EntriesInListOrder ==
    [i \in 1..Len(changedPackages) |-> [content |-> EntryContent(changedPackages[i])]]

\* The document that the entries, taken in list order, give.
DocumentInListOrder ==
    LET obj == ClassifyAll(EntriesInListOrder, <<>>)
        md == IF pipeline = "split"
              THEN SplitMarkdown(Subsections(obj, "major"), Subsections(obj, "patch"))
              ELSE FilterMarkdown(FilterIncludes(EntriesInListOrder, MAJOR),
                                  FilterIncludes(EntriesInListOrder, PATCH))
    IN ChangelogBody(OrElse(releaseVersion, VersionFromPackageJson),
                     AlignedMarkdown(md))

\* C9: the reads complete in any order, but the document is the same for
\* every completion order and depends only on the order of the package
\* list; classification and rendering start only after all reads completed.
C9_OrderIndependent ==
    LET document == IF fmt = "ok" THEN PrettierFormat(DocumentInListOrder)
                    ELSE DocumentInListOrder
    IN
    /\ pc \in {"start", "switch", "reset", "versions", "exec", "search",
              "getChangedPackages", "readJson", "startReads", "reads", "classify"} =>
           /\ pluginChanges = <<>>
           /\ features = <<>>
           /\ bugfixes = <<>>
           /\ changelogBody = <<>>
           /\ written = <<>>
    /\ Classified =>
           /\ pendingReads = {}
           /\ rejected = {}
    /\ pc \in {"classify", "assemble"} => changelogEntries = EntriesInListOrder
    /\ pc \in {"format", "write", "writing"} => changelogBody = document
    /\ pc = "commit" => written = <<[path |-> fullChangelogPath, content |-> document]>>
    /\ \A k \in 1..Len(written) : written[k].content = changelogBody

\* Two packages with different titles and entries: the read of the second
\* completed first, and the run has completed with the document written.
C9_Witness ==
    /\ Len(changedPackages) >= 2
    /\ overtaken
    /\ EntryContent(changedPackages[1]) # EntryContent(changedPackages[2])
    /\ TitleOf(1) # TitleOf(2)
    /\ Len(features) + Len(bugfixes) >= 2
    /\ Len(written) = 1
    /\ pc = "done"

-----------------------------------------------------------------------------
(* C10 *)

PullOps == {"pulls.create", "pulls.update"}

\* C10: a completed run has made exactly one pull-request mutation, after the
\* file was written and the version branch was force-pushed: pulls.create
\* when the search (issued before the changelogs are read) returned nothing,
\* else pulls.update on the first item; pullRequestNumber is that PR's number.
C10_OnePullRequestMutation ==
    /\ \A k \in CallsOf(PullOps) :
           /\ written # <<>>
           /\ pc \in {"done", "failed"}
           /\ error \in {"", "pulls.create", "pulls.update"}
           /\ \E w, p \in 1..(k - 1) :
                  /\ w < p
                  /\ calls[w].op = "writeFile"
                  /\ calls[p] = Call("push", <<"changeset-release/", "main", "force">>)
    /\ \A r \in CallsOf({"readFile"}) :
           \E q \in 1..(r - 1) : calls[q].op = "search.issuesAndPullRequests"
    /\ pc = "done" =>
           /\ Cardinality(CallsOf(PullOps)) = 1
           /\ calls[Len(calls)].op \in PullOps
           /\ calls[Len(calls)] =
                  IF searchItems = <<>>
                  THEN Call("pulls.create", <<result.pullRequestNumber>>)
                  ELSE Call("pulls.update", <<searchItems[1]>>)
           /\ searchItems = <<>> => result.pullRequestNumber \in NewNumbers
           /\ searchItems # <<>> => result.pullRequestNumber = searchItems[1]

\* A completed run that updated the first of two pull requests found.
C10_Witness ==
    /\ pc = "done"
    /\ Len(searchItems) = 2
    /\ result.pullRequestNumber = 7
    /\ calls[Len(calls)].op = "pulls.update"

-----------------------------------------------------------------------------
(* C11 *)

\* The rendering step has run (it may have thrown).
Rendered ==
    IF pipeline = "split" THEN Classified
    ELSE \/ pc \in PostClassify \ {"assemble"}
         \/ pc = "failed" /\ error \in LateErrors \cup {"TypeError"}

\* The entries selected into a bucket of the filter pipeline that hold no
\* "Changes".
WithoutChanges(bucket) ==
    {k \in 1..Len(bucket) : ~Includes(bucket[k].content, <<CHANGES>>)}

\* C11: in the splitContent pipeline every non-empty major or patch text
\* stored by the classifier holds the literal "Changes", so
\* split("Changes")[1] is defined for it and rendering never raises; in the
\* filter pipeline the run fails with a TypeError exactly when a selected
\* entry's content holds no "Changes".
C11_SplitRenderingNeverRaises ==
    /\ pipeline = "split" =>
           /\ error # "TypeError"
           /\ \A i \in 1..Len(pluginChanges) :
                  /\ pluginChanges[i].major # <<>> =>
                         /\ Includes(pluginChanges[i].major, <<CHANGES>>)
                         /\ Renderable(pluginChanges[i].major)
                  /\ pluginChanges[i].patch # <<>> =>
                         /\ Includes(pluginChanges[i].patch, <<CHANGES>>)
                         /\ Renderable(pluginChanges[i].patch)
           /\ Classified =>
                  /\ Len(features) = Cardinality({i \in 1..Len(pluginChanges) :
                                                     pluginChanges[i].major # <<>>})
                  /\ Len(bugfixes) = Cardinality({i \in 1..Len(pluginChanges) :
                                                     pluginChanges[i].patch # <<>>})
    /\ (pipeline = "filter" /\ Rendered) =>
           (error = "TypeError"
                <=> WithoutChanges(features) \cup WithoutChanges(bugfixes) # {})

\* A run of the split pipeline has rendered a major and a patch text stored
\* for one package and has completed.
C11_Witness ==
    /\ pipeline = "split"
    /\ pc = "done"
    /\ Len(pluginChanges) = 1
    /\ pluginChanges[1].major # <<>>
    /\ pluginChanges[1].patch # <<>>
    /\ Len(features) = 1
    /\ Len(bugfixes) = 1

-----------------------------------------------------------------------------
(* C12 *)

\* The lines of the publish output.
OutputOf == Split(stdout, <<NL>>)

\* The lines that match the "New tag:" pattern of the repository's kind.
MatchingLines ==
    IF tool = "root" THEN SelectSeq(OutputOf, LAMBDA l : rootTagRegex(l))
    ELSE SelectSeq(OutputOf, LAMBDA l : newTagRegex(l).matched)

\* The workspace package of a given name.
Workspace(name) == CHOOSE pkg \in {packages[k] : k \in 1..Len(packages)} : pkg.name = name

WorkspaceNames == {packages[k].name : k \in 1..Len(packages)}

\* A matched name is not a workspace package.
MatchedMissing ==
    /\ tool # "root"
    /\ \E k \in 1..Len(MatchingLines) :
           newTagRegex(MatchingLines[k]).name \notin WorkspaceNames

\* The scan of the output has run (it may have thrown).
Scanned ==
    \/ publishPc \in {"releases", "return", "done"}
    \/ publishPc = "failed"
          /\ publishError \notin {"execWithOutput", "pushTags", "getPackages"}

ReleaseOps == {"createRelease", "repos.createRelease"}

PublishCallsOf(ops) == {k \in 1..Len(publishCalls) : publishCalls[k].op \in ops}

\* C12: runPublish returns published: true exactly when at least one line
\* of the output matched the "New tag:" pattern; publishedPackages has one
\* element per matching line, in output order, for a multi-package
\* repository (a matched name that is not a workspace package fails the run
\* instead) and exactly one, the root package, for a single-package one;
\* otherwise published is false.  createRelease is called only for the
\* released packages, only when createGithubReleases is true and only after
\* pushTags has completed.
C12_PublishedIffNewTag ==
    /\ publishPc = "done" =>
           /\ publishResult.published <=> MatchingLines # <<>>
           /\ ~publishResult.published => publishResult.publishedPackages = <<>>
           /\ tool # "root" =>
                  publishResult.publishedPackages =
                      [k \in 1..Len(MatchingLines) |->
                          LET pkg == Workspace(newTagRegex(MatchingLines[k]).name)
                          IN [name |-> pkg.name, version |-> pkg.version]]
           /\ (tool = "root" /\ MatchingLines # <<>>) =>
                  publishResult.publishedPackages =
                      <<[name |-> packages[1].name, version |-> packages[1].version]>>
    /\ (Scanned /\ MatchedMissing) =>
           /\ publishPc = "failed"
           /\ publishError = "notFound"
           /\ PublishCallsOf(ReleaseOps) = {}
    /\ publishPc # "done" => publishResult = NoPublishResult
    /\ \A k \in PublishCallsOf(ReleaseOps) :
           /\ createGithubReleases
           /\ \E j \in 1..(k - 1) : publishCalls[j].op = "pushTags"
           /\ publishError # "pushTags"
           /\ \E r \in 1..Len(releasedPackages) :
                  /\ TagName(releasedPackages[r], tool # "root")
                         = (IF publishCalls[k].op = "createRelease"
                            THEN publishCalls[k].arg.tagName
                            ELSE publishCalls[k].arg.tag_name)
                  /\ \E m \in 1..Len(MatchingLines) :
                         tool # "root" =>
                             newTagRegex(MatchingLines[m]).name = releasedPackages[r].name
    /\ Cardinality(PublishCallsOf({"createRelease"})) <= Len(MatchingLines)

\* A multi-package run has completed with two matching lines, the scoped
\* package first, and has created both releases.
C12_Witness ==
    /\ publishPc = "done"
    /\ tool # "root"
    /\ createGithubReleases
    /\ Len(OutputOf) = 2
    /\ Len(MatchingLines) = 2
    /\ publishResult.published
    /\ Len(publishResult.publishedPackages) = 2
    /\ publishResult.publishedPackages[1].name = <<AT, "scope", SLASH, "pkg-b">>
    /\ publishResult.publishedPackages[2].name = <<"pkg-a">>
    /\ Cardinality(PublishCallsOf({"repos.createRelease"})) = 2

====
